---- MODULE Spec2Model ----
(***************************************************************************)
(* Model of observations/config.go of ipfs-cluster: the MetricsConfig and  *)
(* TracingConfig configuration sections (Default, Validate, LoadJSON,      *)
(* ToJSON), the JSON documents and environment variables they are loaded   *)
(* from, and the process-wide logger both sections write to.               *)
(*                                                                         *)
(* Texts are modelled by their structure, so that parsing and formatting   *)
(* are real conversions:                                                   *)
(*   - a multiaddr text is the sequence of its "/"-separated components    *)
(*     ("/ip4/0.0.0.0/tcp/8888" is <<"", "ip4", "0.0.0.0", "tcp", "8888">>,*)
(*     a trailing slash adds a trailing "" component);                     *)
(*   - a duration text is a sign and a sequence of <<number, unit>> parts  *)
(*     ("1m30s" is [neg |-> FALSE, parts |-> <<<<1,"m">>, <<30,"s">>>>]);  *)
(*   - a time.Duration is a whole number of seconds;                       *)
(*   - a float64 is <<"fin", tenths>>, <<"nan", 0>> or <<"inf", sign>>.    *)
(***************************************************************************)
EXTENDS Integers, Sequences, FiniteSets, TLC

(***************************************************************************)
(* Bounds of the model.                                                    *)
(***************************************************************************)
\* Messages the process-wide logger holds at most in a behaviour.
MaxLog == 2

(***************************************************************************)
(* Multiaddr texts and multiaddrs (github.com/multiformats/go-multiaddr).  *)
(***************************************************************************)
\* The nil ma.Multiaddr (zero value of the interface-typed fields).
NilAddr == <<>>

DefaultPrometheusEndpoint == <<"", "ip4", "0.0.0.0", "tcp", "8888">>
DefaultJaegerAgentEndpoint == <<"", "ip4", "0.0.0.0", "udp", "6831">>

\* Protocol names the model knows, each taking one value component.
AddrProtocols == {"ip4", "tcp", "udp"}

ValidAddrValue(proto, v) ==
    IF proto = "ip4" THEN v \in {"0.0.0.0", "127.0.0.1"}
    ELSE v \in {"8888", "6831", "9090"}

\* strings.TrimRight(s, "/") on the component sequence.
RECURSIVE TrimRightSlash(_)
TrimRightSlash(s) ==
    IF Len(s) > 1 /\ s[Len(s)] = ""
    THEN TrimRightSlash(SubSeq(s, 1, Len(s) - 1))
    ELSE s

\* The <<protocol, value>> pairs of the components after the leading "/",
\* or <<"error">> at the first unknown protocol, missing or invalid value.
RECURSIVE AddrPairs(_)
AddrPairs(sp) ==
    IF Len(sp) = 0 THEN <<>>
    ELSE IF sp[1] \notin AddrProtocols \/ Len(sp) < 2 THEN <<"error">>
    ELSE IF ~ValidAddrValue(sp[1], sp[2]) THEN <<"error">>
    ELSE LET rest == AddrPairs(SubSeq(sp, 3, Len(sp)))
         IN  IF rest = <<"error">> THEN rest
             ELSE <<sp[1], sp[2]>> \o rest

\* ma.NewMultiaddr(s): [err, addr].  The parsed address is the flat sequence
\* protocol, value, protocol, value, ... (its binary form).
NewMultiaddr(s) ==
    LET t == TrimRightSlash(s)
    IN  IF t[1] # "" \/ Len(t) = 1
        THEN [err |-> TRUE, addr |-> NilAddr]
        ELSE LET ps == AddrPairs(Tail(t))
             IN  IF ps = <<"error">>
                 THEN [err |-> TRUE, addr |-> NilAddr]
                 ELSE [err |-> FALSE, addr |-> ps]

\* Multiaddr.String(): "/" before every component, no trailing slash.
AddrString(a) == <<"">> \o a

(***************************************************************************)
(* Durations (package time) in whole seconds.                              *)
(***************************************************************************)
DurText(neg, parts) == [neg |-> neg, parts |-> parts]

\* The empty string, which a key absent from the document decodes to.
EmptyDurText == DurText(FALSE, <<>>)

UnitSeconds(u) == IF u = "h" THEN 3600 ELSE IF u = "m" THEN 60 ELSE 1

RECURSIVE SumParts(_)
SumParts(parts) ==
    IF Len(parts) = 0 THEN 0
    ELSE parts[1][1] * UnitSeconds(parts[1][2]) + SumParts(Tail(parts))

\* time.ParseDuration(s): [err, d].
ParseDuration(s) ==
    IF Len(s.parts) = 0
       \/ \E i \in 1..Len(s.parts) : s.parts[i][2] \notin {"h", "m", "s"}
    THEN [err |-> TRUE, d |-> 0]
    ELSE [err |-> FALSE,
          d |-> IF s.neg THEN 0 - SumParts(s.parts) ELSE SumParts(s.parts)]

\* Duration.String(): "0s", "5s", "1m30s", "1h0m0s", with a leading "-".
DurationString(d) ==
    LET u == IF d < 0 THEN 0 - d ELSE d
        h == u \div 3600
        m == (u % 3600) \div 60
        s == u % 60
    IN  DurText(d < 0,
                IF h > 0 THEN <<<<h, "h">>, <<m, "m">>, <<s, "s">>>>
                ELSE IF m > 0 THEN <<<<m, "m">>, <<s, "s">>>>
                ELSE <<<<s, "s">>>>)

\* config.ParseDurations with one DurationOpt: an empty text leaves the
\* destination as it is, a malformed one is an error.  [err, d].
ParseDurations(text, dst) ==
    IF text = EmptyDurText THEN [err |-> FALSE, d |-> dst]
    ELSE ParseDuration(text)

DefaultEnableStats == FALSE
DefaultStatsReportingInterval == 2
DefaultEnableTracing == FALSE

(***************************************************************************)
(* float64 values and their texts.                                          *)
(***************************************************************************)
Fin(tenths) == <<"fin", tenths>>
NaN == <<"nan", 0>>
PosInf == <<"inf", 1>>

\* x < 0 on float64: false for NaN.
FloatNegative(x) ==
    IF x[1] = "fin" THEN x[2] < 0
    ELSE IF x[1] = "inf" THEN x[2] < 0
    ELSE FALSE

\* encoding/json encodes only finite floats.
FloatFinite(x) == x[1] = "fin"

\* strconv.ParseFloat(s, 64): [err, f].
ParseFloat(s) ==
    IF s = "0.7" THEN [err |-> FALSE, f |-> Fin(7)]
    ELSE IF s = "NaN" THEN [err |-> FALSE, f |-> NaN]
    ELSE IF s = "+Inf" THEN [err |-> FALSE, f |-> PosInf]
    ELSE [err |-> TRUE, f |-> Fin(0)]

\* strconv.ParseBool(s): [err, b].
ParseBool(s) ==
    IF s \in {"1", "t", "T", "TRUE", "true", "True"}
    THEN [err |-> FALSE, b |-> TRUE]
    ELSE IF s \in {"0", "f", "F", "FALSE", "false", "False"}
    THEN [err |-> FALSE, b |-> FALSE]
    ELSE [err |-> TRUE, b |-> FALSE]

DefaultTracingSamplingProb == Fin(3)
DefaultTracingServiceName == "cluster-daemon"

(***************************************************************************)
(* JSON documents: a text that is not JSON, or an object whose keys hold a *)
(* JSON value of some type or are absent.                                  *)
(***************************************************************************)
JAbsent == [t |-> "absent"]
JBool(b) == [t |-> "bool", b |-> b]
JString(s) == [t |-> "string", s |-> s]
JNumber(x) == [t |-> "number", n |-> x]
JValue(j) == IF j.t = "bool" THEN j.b ELSE IF j.t = "string" THEN j.s ELSE j.n

\* What json.Unmarshal stores for a key into a field of type ty with zero
\* value zero: [err, v].  An absent key leaves the zero value; a value of
\* another JSON type is an UnmarshalTypeError.
DecodeField(j, ty, zero) ==
    IF j.t = "absent" THEN [err |-> FALSE, v |-> zero]
    ELSE IF j.t = ty THEN [err |-> FALSE, v |-> JValue(j)]
    ELSE [err |-> TRUE, v |-> zero]

(***************************************************************************)
(* The environment: variable name -> <<>> (unset) or <<text>>.             *)
(***************************************************************************)
Unset == <<>>
IsSet(env, key) == env[key] # Unset

MetricsEnvKeys == {"CLUSTER_OBSERVATIONS_ENABLESTATS",
                   "CLUSTER_OBSERVATIONS_PROMETHEUSENDPOINT",
                   "CLUSTER_OBSERVATIONS_STATSREPORTINGINTERVAL"}
TracingEnvKeys == {"CLUSTER_OBSERVATIONS_ENABLETRACING",
                   "CLUSTER_OBSERVATIONS_JAEGERAGENTENDPOINT",
                   "CLUSTER_OBSERVATIONS_TRACINGSAMPLINGPROB",
                   "CLUSTER_OBSERVATIONS_TRACINGSERVICENAME"}
EnvKeys == MetricsEnvKeys \cup TracingEnvKeys

VARIABLES
    registered,  \* the sections the host's config manager loads in this run
    env,         \* the process environment
    nlog,        \* messages written to the package logger
    mcfg,        \* the MetricsConfig instance
    mpc,         \* where the caller of the MetricsConfig instance stands
    mop,         \* the operation last called on it
    mres,        \* the error that operation returned ("nil": none)
    mraw,        \* raw of the LoadJSON call in progress or last finished
    mjcfg,       \* jcfg, local to the LoadJSON call in progress
    mout,        \* the bytes the last ToJSON returned
    mround,      \* <<c>> while mout is ToJSON(c) of a successfully loaded c
    tcfg,        \* the TracingConfig instance
    tpc,         \* where the caller of the TracingConfig instance stands
    top,         \* the operation last called on it
    tres,        \* the error that operation returned ("nil": none)
    traw,        \* raw of the LoadJSON call in progress or last finished
    tjcfg,       \* jcfg, local to the LoadJSON call in progress
    tout,        \* the bytes the last ToJSON returned
    tround       \* <<c>> while tout is ToJSON(c) of a successfully loaded c

mvars == <<mcfg, mpc, mop, mres, mraw, mjcfg, mout, mround>>
tvars == <<tcfg, tpc, top, tres, traw, tjcfg, tout, tround>>

(***************************************************************************)
(* MetricsConfig.                                                          *)
(***************************************************************************)
ZeroMetricsConfig ==
    [EnableStats |-> FALSE, PrometheusEndpoint |-> NilAddr,
     StatsReportingInterval |-> 0]

ZeroJSONMetricsConfig ==
    [EnableStats |-> FALSE, PrometheusEndpoint |-> <<"">>,
     StatsReportingInterval |-> EmptyDurText]

NotJSON == [json |-> FALSE]
NoDoc == [json |-> FALSE, none |-> TRUE]

MetricsDoc(e, p, i) ==
    [json |-> TRUE, enable_stats |-> e, prometheus_endpoint |-> p,
     reporting_interval |-> i]

\* cfg.Default()
MetricsDefault(cfg) ==
    [EnableStats |-> DefaultEnableStats,
     PrometheusEndpoint |-> NewMultiaddr(DefaultPrometheusEndpoint).addr,
     StatsReportingInterval |-> DefaultStatsReportingInterval]

\* cfg.Validate(): the error returned.
MetricsValidate(cfg) ==
    IF cfg.EnableStats
    THEN IF cfg.PrometheusEndpoint = NilAddr THEN "InvalidConfig"
         ELSE IF cfg.StatsReportingInterval < 0 THEN "InvalidConfig"
         ELSE "nil"
    ELSE "nil"

\* json.Unmarshal(raw, jcfg) into a zero jsonMetricsConfig: [err, jcfg].
MetricsUnmarshal(raw) ==
    IF ~raw.json THEN [err |-> TRUE, jcfg |-> ZeroJSONMetricsConfig]
    ELSE LET e == DecodeField(raw.enable_stats, "bool", FALSE)
             p == DecodeField(raw.prometheus_endpoint, "string", <<"">>)
             i == DecodeField(raw.reporting_interval, "string", EmptyDurText)
         IN  [err |-> e.err \/ p.err \/ i.err,
              jcfg |-> [EnableStats |-> e.v, PrometheusEndpoint |-> p.v,
                        StatsReportingInterval |-> i.v]]

\* Mutant of MetricsEnvProcess: the variables are processed into a fresh
\* jsonMetricsConfig, so a field whose variable is unset loses its decoded
\* value.
MetricsEnvProcess_FreshStruct(e, jcfg) ==
    LET ke == "CLUSTER_OBSERVATIONS_ENABLESTATS"
        kp == "CLUSTER_OBSERVATIONS_PROMETHEUSENDPOINT"
        ki == "CLUSTER_OBSERVATIONS_STATSREPORTINGINTERVAL"
        any == \E k \in MetricsEnvKeys : IsSet(e, k)
        z  == IF any THEN ZeroJSONMetricsConfig ELSE jcfg
        b  == IF IsSet(e, ke) THEN ParseBool(e[ke][1])
              ELSE [err |-> FALSE, b |-> z.EnableStats]
    IN  [err |-> b.err,
         jcfg |-> IF b.err THEN jcfg
                  ELSE [EnableStats |-> b.b,
                        PrometheusEndpoint |->
                            IF IsSet(e, kp) THEN e[kp][1]
                            ELSE z.PrometheusEndpoint,
                        StatsReportingInterval |->
                            IF IsSet(e, ki) THEN e[ki][1]
                            ELSE z.StatsReportingInterval]]

\* envconfig.Process(envConfigKey, jcfg) on a jsonMetricsConfig: every field
\* whose variable is set takes the variable's value, parsed as the field's
\* type; the first value that does not parse is the error.  [err, jcfg].
MetricsEnvProcess(e, jcfg) ==
    LET ke == "CLUSTER_OBSERVATIONS_ENABLESTATS"
        kp == "CLUSTER_OBSERVATIONS_PROMETHEUSENDPOINT"
        ki == "CLUSTER_OBSERVATIONS_STATSREPORTINGINTERVAL"
        b  == IF IsSet(e, ke) THEN ParseBool(e[ke][1])
              ELSE [err |-> FALSE, b |-> jcfg.EnableStats]
    IN  [err |-> b.err,
         jcfg |-> IF b.err THEN jcfg
                  ELSE [EnableStats |-> b.b,
                        PrometheusEndpoint |->
                            IF IsSet(e, kp) THEN e[kp][1]
                            ELSE jcfg.PrometheusEndpoint,
                        StatsReportingInterval |->
                            IF IsSet(e, ki) THEN e[ki][1]
                            ELSE jcfg.StatsReportingInterval]]

\* Mutant of MetricsLoadEndpoint: the error of ma.NewMultiaddr is dropped, as
\* Default() drops it, and the endpoint keeps its default.
MetricsLoadEndpoint_IgnoreErr(cfg, jcfg) ==
    LET a == NewMultiaddr(jcfg.PrometheusEndpoint)
        c == [cfg EXCEPT !.EnableStats = jcfg.EnableStats]
    IN  IF a.err THEN [err |-> FALSE, cfg |-> c]
        ELSE [err |-> FALSE, cfg |-> [c EXCEPT !.PrometheusEndpoint = a.addr]]

\* loadMetricsOptions up to the endpoint: [err, cfg].
MetricsLoadEndpoint(cfg, jcfg) ==
    LET a == NewMultiaddr(jcfg.PrometheusEndpoint)
        c == [cfg EXCEPT !.EnableStats = jcfg.EnableStats]
    IN  IF a.err THEN [err |-> TRUE, cfg |-> c]
        ELSE [err |-> FALSE, cfg |-> [c EXCEPT !.PrometheusEndpoint = a.addr]]

\* loadMetricsOptions, the call of config.ParseDurations: [err, cfg].
MetricsLoadInterval(cfg, jcfg) ==
    LET d == ParseDurations(jcfg.StatsReportingInterval,
                            cfg.StatsReportingInterval)
    IN  IF d.err THEN [err |-> TRUE, cfg |-> cfg]
        ELSE [err |-> FALSE,
              cfg |-> [cfg EXCEPT !.StatsReportingInterval = d.d]]

\* cfg.ToJSON(): [res, bytes].  String() on a nil endpoint panics.
MetricsToJSON(cfg) ==
    IF cfg.PrometheusEndpoint = NilAddr
    THEN [res |-> "panic", bytes |-> NoDoc]
    ELSE [res |-> "nil",
          bytes |-> MetricsDoc(
              JBool(cfg.EnableStats),
              JString(AddrString(cfg.PrometheusEndpoint)),
              JString(DurationString(cfg.StatsReportingInterval)))]

(***************************************************************************)
(* TracingConfig.                                                          *)
(***************************************************************************)
ZeroTracingConfig ==
    [EnableTracing |-> FALSE, JaegerAgentEndpoint |-> NilAddr,
     TracingSamplingProb |-> Fin(0), TracingServiceName |-> ""]

ZeroJSONTracingConfig ==
    [EnableTracing |-> FALSE, JaegerAgentEndpoint |-> <<"">>,
     TracingSamplingProb |-> Fin(0), TracingServiceName |-> ""]

TracingDoc(e, p, x, n) ==
    [json |-> TRUE, enable_tracing |-> e, jaeger_agent_endpoint |-> p,
     sampling_prob |-> x, service_name |-> n]

\* Mutant of TracingDefault: the enable flag is left as it is.
TracingDefault_KeepEnable(cfg) ==
    [EnableTracing |-> cfg.EnableTracing,
     JaegerAgentEndpoint |-> NewMultiaddr(DefaultJaegerAgentEndpoint).addr,
     TracingSamplingProb |-> DefaultTracingSamplingProb,
     TracingServiceName |-> DefaultTracingServiceName]

\* cfg.Default()
TracingDefault(cfg) ==
    [EnableTracing |-> DefaultEnableTracing,
     JaegerAgentEndpoint |-> NewMultiaddr(DefaultJaegerAgentEndpoint).addr,
     TracingSamplingProb |-> DefaultTracingSamplingProb,
     TracingServiceName |-> DefaultTracingServiceName]

\* Mutant of TracingValidate: also rejects a sampling probability above 1.
TracingValidate_UpperBound(cfg) ==
    IF cfg.EnableTracing
    THEN IF cfg.JaegerAgentEndpoint = NilAddr THEN "InvalidConfig"
         ELSE IF FloatNegative(cfg.TracingSamplingProb) THEN "InvalidConfig"
         ELSE IF cfg.TracingSamplingProb[1] = "fin"
                 /\ cfg.TracingSamplingProb[2] > 10 THEN "InvalidConfig"
         ELSE "nil"
    ELSE "nil"

\* cfg.Validate(): the error returned.
TracingValidate(cfg) ==
    IF cfg.EnableTracing
    THEN IF cfg.JaegerAgentEndpoint = NilAddr THEN "InvalidConfig"
         ELSE IF FloatNegative(cfg.TracingSamplingProb) THEN "InvalidConfig"
         ELSE "nil"
    ELSE "nil"

\* json.Unmarshal(raw, jcfg) into a zero jsonTracingConfig: [err, jcfg].
TracingUnmarshal(raw) ==
    IF ~raw.json THEN [err |-> TRUE, jcfg |-> ZeroJSONTracingConfig]
    ELSE LET e == DecodeField(raw.enable_tracing, "bool", FALSE)
             p == DecodeField(raw.jaeger_agent_endpoint, "string", <<"">>)
             x == DecodeField(raw.sampling_prob, "number", Fin(0))
             n == DecodeField(raw.service_name, "string", "")
         IN  [err |-> e.err \/ p.err \/ x.err \/ n.err,
              jcfg |-> [EnableTracing |-> e.v, JaegerAgentEndpoint |-> p.v,
                        TracingSamplingProb |-> x.v,
                        TracingServiceName |-> n.v]]

\* envconfig.Process(envConfigKey, jcfg) on a jsonTracingConfig: [err, jcfg].
TracingEnvProcess(e, jcfg) ==
    LET ke == "CLUSTER_OBSERVATIONS_ENABLETRACING"
        kp == "CLUSTER_OBSERVATIONS_JAEGERAGENTENDPOINT"
        kx == "CLUSTER_OBSERVATIONS_TRACINGSAMPLINGPROB"
        kn == "CLUSTER_OBSERVATIONS_TRACINGSERVICENAME"
        b  == IF IsSet(e, ke) THEN ParseBool(e[ke][1])
              ELSE [err |-> FALSE, b |-> jcfg.EnableTracing]
        x  == IF IsSet(e, kx) THEN ParseFloat(e[kx][1])
              ELSE [err |-> FALSE, f |-> jcfg.TracingSamplingProb]
    IN  [err |-> b.err \/ x.err,
         jcfg |-> IF b.err \/ x.err THEN jcfg
                  ELSE [EnableTracing |-> b.b,
                        JaegerAgentEndpoint |->
                            IF IsSet(e, kp) THEN e[kp][1]
                            ELSE jcfg.JaegerAgentEndpoint,
                        TracingSamplingProb |-> x.f,
                        TracingServiceName |->
                            IF IsSet(e, kn) THEN e[kn][1]
                            ELSE jcfg.TracingServiceName]]

\* loadTracingOptions: [err, cfg].
LoadTracingOptions(cfg, jcfg) ==
    LET a == NewMultiaddr(jcfg.JaegerAgentEndpoint)
        c == [cfg EXCEPT !.EnableTracing = jcfg.EnableTracing]
    IN  IF a.err THEN [err |-> TRUE, cfg |-> c]
        ELSE [err |-> FALSE,
              cfg |-> [c EXCEPT
                          !.JaegerAgentEndpoint = a.addr,
                          !.TracingSamplingProb = jcfg.TracingSamplingProb,
                          !.TracingServiceName = jcfg.TracingServiceName]]

\* cfg.ToJSON(): [res, bytes].  String() on a nil endpoint panics, and
\* encoding/json refuses a float that is not finite.
TracingToJSON(cfg) ==
    IF cfg.JaegerAgentEndpoint = NilAddr
    THEN [res |-> "panic", bytes |-> NoDoc]
    ELSE IF ~FloatFinite(cfg.TracingSamplingProb)
    THEN [res |-> "UnsupportedValue", bytes |-> NoDoc]
    ELSE [res |-> "nil",
          bytes |-> TracingDoc(
              JBool(cfg.EnableTracing),
              JString(AddrString(cfg.JaegerAgentEndpoint)),
              JNumber(cfg.TracingSamplingProb),
              JString(cfg.TracingServiceName))]

(***************************************************************************)
(* The inputs of the model: documents, field values and environments.      *)
(***************************************************************************)
MetricsFieldEndpoints ==
    {NilAddr, NewMultiaddr(DefaultPrometheusEndpoint).addr}
MetricsFieldIntervals == {0 - 5, 0, 90}

MetricsDocs ==
    {NotJSON} \cup
    {MetricsDoc(e, p, i) :
        e \in {JAbsent, JBool(TRUE), JBool(FALSE)},
        p \in {JAbsent,
               JString(<<"", "ip4", "127.0.0.1", "tcp", "9090", "">>),
               JString(<<"not-a-multiaddr">>)},
        i \in {JAbsent,
               JString(DurText(FALSE, <<<<5, "s">>>>)),
               JString(DurText(TRUE, <<<<5, "s">>>>)),
               JString(DurText(FALSE, <<<<90, "s">>>>)),
               JString(DurText(FALSE, <<<<5, "x">>>>)),
               JNumber(Fin(50))}}

MetricsEnvs ==
    {[k \in EnvKeys |->
        IF k = "CLUSTER_OBSERVATIONS_ENABLESTATS" THEN e
        ELSE IF k = "CLUSTER_OBSERVATIONS_PROMETHEUSENDPOINT" THEN p
        ELSE IF k = "CLUSTER_OBSERVATIONS_STATSREPORTINGINTERVAL" THEN i
        ELSE Unset] :
        e \in {Unset, <<"true">>, <<"false">>, <<"maybe">>},
        p \in {Unset, <<<<"", "ip4", "0.0.0.0", "tcp", "9090">>>>,
               <<<<"", "tcp">>>>},
        i \in {Unset, <<DurText(FALSE, <<<<1, "m">>, <<30, "s">>>>)>>,
               <<DurText(FALSE, <<<<1, "d">>>>)>>}}

TracingFieldEndpoints ==
    {NilAddr, NewMultiaddr(DefaultJaegerAgentEndpoint).addr}
TracingFieldProbs == {Fin(0 - 1), Fin(0), Fin(15)}

TracingDocs ==
    {NotJSON} \cup
    {TracingDoc(e, p, x, n) :
        e \in {JAbsent, JBool(TRUE), JBool(FALSE)},
        p \in {JAbsent,
               JString(<<"", "ip4", "127.0.0.1", "udp", "6831", "">>),
               JString(<<"not-a-multiaddr">>)},
        x \in {JAbsent, JNumber(Fin(5)), JNumber(Fin(0 - 1)),
               JString("0.5")},
        n \in {JAbsent, JString("svc")}}

TracingEnvs ==
    {[k \in EnvKeys |->
        IF k = "CLUSTER_OBSERVATIONS_ENABLETRACING" THEN e
        ELSE IF k = "CLUSTER_OBSERVATIONS_JAEGERAGENTENDPOINT" THEN p
        ELSE IF k = "CLUSTER_OBSERVATIONS_TRACINGSAMPLINGPROB" THEN x
        ELSE IF k = "CLUSTER_OBSERVATIONS_TRACINGSERVICENAME" THEN n
        ELSE Unset] :
        e \in {Unset, <<"true">>, <<"false">>},
        p \in {Unset, <<<<"", "ip4", "0.0.0.0", "udp", "9090">>>>,
               <<<<"", "udp">>>>},
        x \in {Unset, <<"0.7">>, <<"NaN">>, <<"abc">>},
        n \in {Unset, <<"envsvc">>}}

\* The documents and environments of the concurrent loads.
ConcurrentMetricsDocs ==
    {NotJSON,
     MetricsDoc(JBool(TRUE),
                JString(<<"", "ip4", "127.0.0.1", "tcp", "9090", "">>),
                JString(DurText(TRUE, <<<<5, "s">>>>))),
     MetricsDoc(JAbsent, JString(<<"not-a-multiaddr">>),
                JString(DurText(FALSE, <<<<5, "x">>>>))),
     MetricsDoc(JBool(FALSE),
                JString(<<"", "ip4", "127.0.0.1", "tcp", "9090", "">>),
                JString(DurText(FALSE, <<<<90, "s">>>>)))}

ConcurrentTracingDocs ==
    {NotJSON,
     TracingDoc(JBool(TRUE),
                JString(<<"", "ip4", "127.0.0.1", "udp", "6831", "">>),
                JNumber(Fin(5)), JString("svc")),
     TracingDoc(JAbsent, JString(<<"not-a-multiaddr">>), JAbsent, JAbsent),
     TracingDoc(JBool(TRUE),
                JString(<<"", "ip4", "127.0.0.1", "udp", "6831", "">>),
                JNumber(Fin(0 - 1)), JAbsent)}

EnvOf(set) == [k \in EnvKeys |-> IF k \in DOMAIN set THEN set[k] ELSE Unset]

ConcurrentEnvs ==
    {EnvOf(<<>>),
     EnvOf(("CLUSTER_OBSERVATIONS_ENABLESTATS" :> <<"true">>)
           @@ ("CLUSTER_OBSERVATIONS_TRACINGSAMPLINGPROB" :> <<"0.7">>)),
     EnvOf(("CLUSTER_OBSERVATIONS_STATSREPORTINGINTERVAL"
                :> <<DurText(FALSE, <<<<1, "m">>, <<30, "s">>>>)>>)
           @@ ("CLUSTER_OBSERVATIONS_ENABLETRACING" :> <<"false">>))}

(***************************************************************************)
(* The caller's operations on the MetricsConfig instance.  LoadJSON runs   *)
(* in steps, mpc naming the next one; the other operations are one step.   *)
(***************************************************************************)
MetricsIdle == "metrics" \in registered /\ mpc = "idle"

\* The caller assigns the exported fields directly.
MetricsSetFields ==
    /\ MetricsIdle
    /\ \E e \in BOOLEAN, p \in MetricsFieldEndpoints,
          i \in MetricsFieldIntervals :
          mcfg' = [EnableStats |-> e, PrometheusEndpoint |-> p,
                   StatsReportingInterval |-> i]
    /\ mop' = "new" /\ mres' = "nil"
    /\ mraw' = NoDoc /\ mout' = NoDoc /\ mround' = <<>>
    /\ UNCHANGED <<registered, env, nlog, mpc, mjcfg,
                   tvars>>

MetricsCallDefault ==
    /\ MetricsIdle
    /\ mcfg' = MetricsDefault(mcfg)
    /\ mop' = "Default" /\ mres' = "nil"
    /\ mraw' = NoDoc /\ mout' = NoDoc /\ mround' = <<>>
    /\ UNCHANGED <<registered, env, nlog, mpc, mjcfg,
                   tvars>>

MetricsCallValidate ==
    /\ MetricsIdle
    /\ mop' = "Validate" /\ mres' = MetricsValidate(mcfg)
    /\ mraw' = NoDoc /\ mout' = NoDoc /\ mround' = <<>>
    /\ UNCHANGED <<registered, env, nlog, mcfg, mpc, mjcfg,
                   tvars>>

\* ToJSON; a panic ends the process.
MetricsCallToJSON ==
    /\ MetricsIdle
    /\ LET j == MetricsToJSON(mcfg)
       IN  /\ mres' = j.res
           /\ mout' = j.bytes
           /\ mpc' = IF j.res = "panic" THEN "panicked" ELSE "idle"
    /\ mround' = IF mop = "LoadJSON" /\ mres = "nil" THEN <<mcfg>> ELSE <<>>
    /\ mop' = "ToJSON"
    /\ mraw' = NoDoc
    /\ UNCHANGED <<registered, env, nlog, mcfg, mjcfg,
                   tvars>>

\* Mutant of MetricsLoadJSON: Default() is called before json.Unmarshal, so
\* a decoding error returns with the fields reset.
MetricsLoadJSON_DefaultFirst(docs) ==
    /\ MetricsIdle
    /\ \E raw \in docs \cup (IF mout = NoDoc THEN {} ELSE {mout}) :
          LET u == MetricsUnmarshal(raw)
          IN  /\ mraw' = raw
              /\ mround' = IF raw = mout /\ mop = "ToJSON" THEN mround
                           ELSE <<>>
              /\ IF u.err
                 THEN /\ nlog < MaxLog
                      /\ nlog' = nlog + 1
                      /\ mres' = "DecodeError"
                      /\ mcfg' = MetricsDefault(mcfg)
                      /\ UNCHANGED <<mpc, mjcfg>>
                 ELSE /\ mpc' = "default"
                      /\ mjcfg' = u.jcfg
                      /\ mres' = "running"
                      /\ UNCHANGED <<nlog, mcfg>>
    /\ mop' = "LoadJSON"
    /\ mout' = NoDoc
    /\ UNCHANGED <<registered, env, tvars>>

\* LoadJSON(raw), entry and json.Unmarshal: raw is one of the documents
\* docs or the bytes the last ToJSON returned.  A decoding error is logged
\* and returned.
MetricsLoadJSON(docs) ==
    /\ MetricsIdle
    /\ \E raw \in docs \cup (IF mout = NoDoc THEN {} ELSE {mout}) :
          LET u == MetricsUnmarshal(raw)
          IN  /\ mraw' = raw
              /\ mround' = IF raw = mout /\ mop = "ToJSON" THEN mround
                           ELSE <<>>
              /\ IF u.err
                 THEN /\ nlog < MaxLog
                      /\ nlog' = nlog + 1
                      /\ mres' = "DecodeError"
                      /\ UNCHANGED <<mpc, mjcfg>>
                 ELSE /\ mpc' = "default"
                      /\ mjcfg' = u.jcfg
                      /\ mres' = "running"
                      /\ UNCHANGED nlog
    /\ mop' = "LoadJSON"
    /\ mout' = NoDoc
    /\ UNCHANGED <<registered, env, mcfg,
                   tvars>>

\* Mutant of MetricsStepDefault: LoadJSON does not call Default().
MetricsStepDefault_Skip ==
    /\ "metrics" \in registered /\ mpc = "default"
    /\ mpc' = "env"
    /\ UNCHANGED <<registered, env, nlog, mcfg, mop, mres, mraw, mjcfg, mout,
                   mround, tvars>>

\* LoadJSON: cfg.Default().
MetricsStepDefault ==
    /\ "metrics" \in registered /\ mpc = "default"
    /\ mcfg' = MetricsDefault(mcfg)
    /\ mpc' = "env"
    /\ UNCHANGED <<registered, env, nlog, mop, mres, mraw, mjcfg, mout, mround,
                   tvars>>

\* Leaving LoadJSON with error res.
MetricsReturn(res) ==
    /\ mres' = res
    /\ mpc' = "idle"
    /\ mjcfg' = ZeroJSONMetricsConfig

\* LoadJSON: envconfig.Process.
MetricsStepEnv ==
    /\ "metrics" \in registered /\ mpc = "env"
    /\ LET p == MetricsEnvProcess(env, mjcfg)
       IN  IF p.err
           THEN MetricsReturn("EnvError")
           ELSE mjcfg' = p.jcfg /\ mpc' = "endpoint" /\ UNCHANGED mres
    /\ UNCHANGED <<registered, env, nlog, mcfg, mop, mraw, mout, mround,
                   tvars>>

\* LoadJSON: loadMetricsOptions, the enable flag and the endpoint.
MetricsStepEndpoint ==
    /\ "metrics" \in registered /\ mpc = "endpoint"
    /\ LET r == MetricsLoadEndpoint(mcfg, mjcfg)
       IN  /\ mcfg' = r.cfg
           /\ IF r.err
              THEN MetricsReturn("InvalidEndpoint")
              ELSE mpc' = "interval" /\ UNCHANGED <<mres, mjcfg>>
    /\ UNCHANGED <<registered, env, nlog, mop, mraw, mout, mround,
                   tvars>>

\* LoadJSON: loadMetricsOptions, config.ParseDurations.
MetricsStepInterval ==
    /\ "metrics" \in registered /\ mpc = "interval"
    /\ LET r == MetricsLoadInterval(mcfg, mjcfg)
       IN  /\ mcfg' = r.cfg
           /\ IF r.err
              THEN MetricsReturn("InvalidDuration")
              ELSE mpc' = "validate" /\ UNCHANGED <<mres, mjcfg>>
    /\ UNCHANGED <<registered, env, nlog, mop, mraw, mout, mround,
                   tvars>>

\* Mutant of MetricsStepValidate: LoadJSON returns nil without validating.
MetricsStepValidate_Skip ==
    /\ "metrics" \in registered /\ mpc = "validate"
    /\ MetricsReturn("nil")
    /\ UNCHANGED <<registered, env, nlog, mcfg, mop, mraw, mout, mround,
                   tvars>>

\* LoadJSON: return cfg.Validate().
MetricsStepValidate ==
    /\ "metrics" \in registered /\ mpc = "validate"
    /\ MetricsReturn(MetricsValidate(mcfg))
    /\ UNCHANGED <<registered, env, nlog, mcfg, mop, mraw, mout, mround,
                   tvars>>

(***************************************************************************)
(* The caller's operations on the TracingConfig instance.                  *)
(***************************************************************************)
TracingIdle == "tracing" \in registered /\ tpc = "idle"

\* The caller assigns the exported fields directly.
TracingSetFields ==
    /\ TracingIdle
    /\ \E e \in BOOLEAN, p \in TracingFieldEndpoints,
          x \in TracingFieldProbs :
          tcfg' = [EnableTracing |-> e, JaegerAgentEndpoint |-> p,
                   TracingSamplingProb |-> x, TracingServiceName |-> "svc"]
    /\ top' = "new" /\ tres' = "nil"
    /\ traw' = NoDoc /\ tout' = NoDoc /\ tround' = <<>>
    /\ UNCHANGED <<registered, env, nlog, tpc, tjcfg,
                   mvars>>

TracingCallDefault ==
    /\ TracingIdle
    /\ tcfg' = TracingDefault(tcfg)
    /\ top' = "Default" /\ tres' = "nil"
    /\ traw' = NoDoc /\ tout' = NoDoc /\ tround' = <<>>
    /\ UNCHANGED <<registered, env, nlog, tpc, tjcfg,
                   mvars>>

TracingCallValidate ==
    /\ TracingIdle
    /\ top' = "Validate" /\ tres' = TracingValidate(tcfg)
    /\ traw' = NoDoc /\ tout' = NoDoc /\ tround' = <<>>
    /\ UNCHANGED <<registered, env, nlog, tcfg, tpc, tjcfg,
                   mvars>>

\* ToJSON; a panic ends the process.
TracingCallToJSON ==
    /\ TracingIdle
    /\ LET j == TracingToJSON(tcfg)
       IN  /\ tres' = j.res
           /\ tout' = j.bytes
           /\ tpc' = IF j.res = "panic" THEN "panicked" ELSE "idle"
    /\ tround' = IF top = "LoadJSON" /\ tres = "nil" THEN <<tcfg>> ELSE <<>>
    /\ top' = "ToJSON"
    /\ traw' = NoDoc
    /\ UNCHANGED <<registered, env, nlog, tcfg, tjcfg,
                   mvars>>

\* LoadJSON(raw), entry and json.Unmarshal.
TracingLoadJSON(docs) ==
    /\ TracingIdle
    /\ \E raw \in docs \cup (IF tout = NoDoc THEN {} ELSE {tout}) :
          LET u == TracingUnmarshal(raw)
          IN  /\ traw' = raw
              /\ tround' = IF raw = tout /\ top = "ToJSON" THEN tround
                           ELSE <<>>
              /\ IF u.err
                 THEN /\ nlog < MaxLog
                      /\ nlog' = nlog + 1
                      /\ tres' = "DecodeError"
                      /\ UNCHANGED <<tpc, tjcfg>>
                 ELSE /\ tpc' = "default"
                      /\ tjcfg' = u.jcfg
                      /\ tres' = "running"
                      /\ UNCHANGED nlog
    /\ top' = "LoadJSON"
    /\ tout' = NoDoc
    /\ UNCHANGED <<registered, env, tcfg,
                   mvars>>

\* Mutant of TracingStepDefault: Default() resets a defaults object that the
\* two sections share, so the MetricsConfig fields are reset too.
TracingStepDefault_Shared ==
    /\ "tracing" \in registered /\ tpc = "default"
    /\ tcfg' = TracingDefault(tcfg)
    /\ mcfg' = MetricsDefault(mcfg)
    /\ tpc' = "env"
    /\ UNCHANGED <<registered, env, nlog, top, tres, traw, tjcfg, tout, tround,
                   mpc, mop, mres, mraw, mjcfg, mout, mround>>

\* LoadJSON: cfg.Default().
TracingStepDefault ==
    /\ "tracing" \in registered /\ tpc = "default"
    /\ tcfg' = TracingDefault(tcfg)
    /\ tpc' = "env"
    /\ UNCHANGED <<registered, env, nlog, top, tres, traw, tjcfg, tout, tround,
                   mvars>>

\* Leaving LoadJSON with error res.
TracingReturn(res) ==
    /\ tres' = res
    /\ tpc' = "idle"
    /\ tjcfg' = ZeroJSONTracingConfig

\* LoadJSON: envconfig.Process.
TracingStepEnv ==
    /\ "tracing" \in registered /\ tpc = "env"
    /\ LET p == TracingEnvProcess(env, tjcfg)
       IN  IF p.err
           THEN TracingReturn("EnvError")
           ELSE tjcfg' = p.jcfg /\ tpc' = "options" /\ UNCHANGED tres
    /\ UNCHANGED <<registered, env, nlog, tcfg, top, traw, tout, tround,
                   mvars>>

\* LoadJSON: loadTracingOptions.
TracingStepOptions ==
    /\ "tracing" \in registered /\ tpc = "options"
    /\ LET r == LoadTracingOptions(tcfg, tjcfg)
       IN  /\ tcfg' = r.cfg
           /\ IF r.err
              THEN TracingReturn("InvalidEndpoint")
              ELSE tpc' = "validate" /\ UNCHANGED <<tres, tjcfg>>
    /\ UNCHANGED <<registered, env, nlog, top, traw, tout, tround,
                   mvars>>

\* LoadJSON: return cfg.Validate().
TracingStepValidate ==
    /\ "tracing" \in registered /\ tpc = "validate"
    /\ TracingReturn(TracingValidate(tcfg))
    /\ UNCHANGED <<registered, env, nlog, tcfg, top, traw, tout, tround,
                   mvars>>

(***************************************************************************)
(* LoadJSON run from entry to return with nothing else running: [res, cfg].*)
(***************************************************************************)
MetricsLoadJSONResult(cfg, raw, e) ==
    LET u == MetricsUnmarshal(raw)
    IN  IF u.err THEN [res |-> "DecodeError", cfg |-> cfg]
        ELSE
        LET c == MetricsDefault(cfg)
            p == MetricsEnvProcess(e, u.jcfg)
        IN  IF p.err THEN [res |-> "EnvError", cfg |-> c]
            ELSE
            LET a == MetricsLoadEndpoint(c, p.jcfg)
            IN  IF a.err THEN [res |-> "InvalidEndpoint", cfg |-> a.cfg]
                ELSE
                LET d == MetricsLoadInterval(a.cfg, p.jcfg)
                IN  IF d.err THEN [res |-> "InvalidDuration", cfg |-> d.cfg]
                    ELSE [res |-> MetricsValidate(d.cfg), cfg |-> d.cfg]

TracingLoadJSONResult(cfg, raw, e) ==
    LET u == TracingUnmarshal(raw)
    IN  IF u.err THEN [res |-> "DecodeError", cfg |-> cfg]
        ELSE
        LET c == TracingDefault(cfg)
            p == TracingEnvProcess(e, u.jcfg)
        IN  IF p.err THEN [res |-> "EnvError", cfg |-> c]
            ELSE
            LET a == LoadTracingOptions(c, p.jcfg)
            IN  IF a.err THEN [res |-> "InvalidEndpoint", cfg |-> a.cfg]
                ELSE [res |-> TracingValidate(a.cfg), cfg |-> a.cfg]

vars == <<registered, env, nlog, mvars, tvars>>

\* One section is registered, both instances are zero-valued.
Init ==
    /\ \/ registered = {"metrics"} /\ env \in MetricsEnvs
       \/ registered = {"tracing"} /\ env \in TracingEnvs
    /\ nlog = 0
    /\ mcfg = ZeroMetricsConfig
    /\ mpc = "idle" /\ mop = "new" /\ mres = "nil"
    /\ mraw = NoDoc /\ mjcfg = ZeroJSONMetricsConfig
    /\ mout = NoDoc /\ mround = <<>>
    /\ tcfg = ZeroTracingConfig
    /\ tpc = "idle" /\ top = "new" /\ tres = "nil"
    /\ traw = NoDoc /\ tjcfg = ZeroJSONTracingConfig
    /\ tout = NoDoc /\ tround = <<>>

MetricsNext ==
    \/ MetricsSetFields
    \/ MetricsCallDefault
    \/ MetricsCallValidate
    \/ MetricsCallToJSON
    \/ MetricsLoadJSON(MetricsDocs)
    \/ MetricsStepDefault
    \/ MetricsStepEnv
    \/ MetricsStepEndpoint
    \/ MetricsStepInterval
    \/ MetricsStepValidate

TracingNext ==
    \/ TracingSetFields
    \/ TracingCallDefault
    \/ TracingCallValidate
    \/ TracingCallToJSON
    \/ TracingLoadJSON(TracingDocs)
    \/ TracingStepDefault
    \/ TracingStepEnv
    \/ TracingStepOptions
    \/ TracingStepValidate

Next == MetricsNext \/ TracingNext

Spec == Init /\ [][Next]_vars

(***************************************************************************)
(* Both sections registered: one thread calls Default() and LoadJSON on    *)
(* the MetricsConfig instance while another does on the TracingConfig      *)
(* instance, their steps interleaving freely.                              *)
(***************************************************************************)
InitConcurrent ==
    /\ registered = {"metrics", "tracing"}
    /\ env \in ConcurrentEnvs
    /\ nlog = 0
    /\ mcfg = ZeroMetricsConfig
    /\ mpc = "idle" /\ mop = "new" /\ mres = "nil"
    /\ mraw = NoDoc /\ mjcfg = ZeroJSONMetricsConfig
    /\ mout = NoDoc /\ mround = <<>>
    /\ tcfg = ZeroTracingConfig
    /\ tpc = "idle" /\ top = "new" /\ tres = "nil"
    /\ traw = NoDoc /\ tjcfg = ZeroJSONTracingConfig
    /\ tout = NoDoc /\ tround = <<>>

NextConcurrent ==
    \/ MetricsCallDefault
    \/ MetricsLoadJSON(ConcurrentMetricsDocs)
    \/ MetricsStepDefault
    \/ MetricsStepEnv
    \/ MetricsStepEndpoint
    \/ MetricsStepInterval
    \/ MetricsStepValidate
    \/ TracingCallDefault
    \/ TracingLoadJSON(ConcurrentTracingDocs)
    \/ TracingStepDefault
    \/ TracingStepEnv
    \/ TracingStepOptions
    \/ TracingStepValidate

SpecConcurrent == InitConcurrent /\ [][NextConcurrent]_vars

(***************************************************************************)
(* Properties.                                                             *)
(***************************************************************************)
\* LoadJSON has returned on the instance, and nothing was called since.
MetricsLoaded == mop = "LoadJSON" /\ mpc = "idle"
TracingLoaded == top = "LoadJSON" /\ tpc = "idle"

\* What a field resolves to under compiled default < document < environment:
\* the variable's value if set, else the document's if the key is present,
\* else the default.
Resolved(key, j, default) ==
    IF IsSet(env, key) THEN env[key][1]
    ELSE IF j.t # "absent" THEN JValue(j)
    ELSE default

MetricsByPrecedence ==
    LET ke == "CLUSTER_OBSERVATIONS_ENABLESTATS"
    IN
    /\ mcfg.EnableStats =
          IF IsSet(env, ke) THEN ParseBool(env[ke][1]).b
          ELSE Resolved(ke, mraw.enable_stats, DefaultEnableStats)
    /\ mcfg.PrometheusEndpoint =
          NewMultiaddr(Resolved("CLUSTER_OBSERVATIONS_PROMETHEUSENDPOINT",
                                mraw.prometheus_endpoint,
                                DefaultPrometheusEndpoint)).addr
    /\ mcfg.StatsReportingInterval =
          ParseDuration(Resolved("CLUSTER_OBSERVATIONS_STATSREPORTINGINTERVAL",
                                 mraw.reporting_interval,
                                 DurationString(DefaultStatsReportingInterval))).d

TracingByPrecedence ==
    LET ke == "CLUSTER_OBSERVATIONS_ENABLETRACING"
        kx == "CLUSTER_OBSERVATIONS_TRACINGSAMPLINGPROB"
    IN
    /\ tcfg.EnableTracing =
          IF IsSet(env, ke) THEN ParseBool(env[ke][1]).b
          ELSE Resolved(ke, traw.enable_tracing, DefaultEnableTracing)
    /\ tcfg.JaegerAgentEndpoint =
          NewMultiaddr(Resolved("CLUSTER_OBSERVATIONS_JAEGERAGENTENDPOINT",
                                traw.jaeger_agent_endpoint,
                                DefaultJaegerAgentEndpoint)).addr
    /\ tcfg.TracingSamplingProb =
          IF IsSet(env, kx) THEN ParseFloat(env[kx][1]).f
          ELSE Resolved(kx, traw.sampling_prob, DefaultTracingSamplingProb)
    /\ tcfg.TracingServiceName =
          Resolved("CLUSTER_OBSERVATIONS_TRACINGSERVICENAME",
                   traw.service_name, DefaultTracingServiceName)

\* C1: after a successful LoadJSON every field of MetricsConfig and of
\* TracingConfig equals the environment override if one is set, otherwise
\* the document's value if the key is present, otherwise the compiled
\* default.
C1_Precedence ==
    /\ MetricsLoaded /\ mres = "nil" => MetricsByPrecedence
    /\ TracingLoaded /\ tres = "nil" => TracingByPrecedence

\* The MetricsConfig half of C1 alone.
MetricsPrecedence == MetricsLoaded /\ mres = "nil" => MetricsByPrecedence

\* The same enable flag, endpoint string and interval.
MetricsSame(c, d) ==
    /\ c.EnableStats = d.EnableStats
    /\ c.PrometheusEndpoint # NilAddr /\ d.PrometheusEndpoint # NilAddr
    /\ AddrString(c.PrometheusEndpoint) = AddrString(d.PrometheusEndpoint)
    /\ c.StatsReportingInterval = d.StatsReportingInterval

\* The same enable flag, endpoint string, probability and service name.
TracingSame(c, d) ==
    /\ c.EnableTracing = d.EnableTracing
    /\ c.JaegerAgentEndpoint # NilAddr /\ d.JaegerAgentEndpoint # NilAddr
    /\ AddrString(c.JaegerAgentEndpoint) = AddrString(d.JaegerAgentEndpoint)
    /\ c.TracingSamplingProb = d.TracingSamplingProb
    /\ c.TracingServiceName = d.TracingServiceName

MetricsRoundTrip ==
    /\ mop = "ToJSON" /\ mround # <<>> => mres = "nil"
    /\ MetricsLoaded /\ mround # <<>> =>
          mres = "nil" /\ MetricsSame(mcfg, mround[1])

TracingRoundTrip ==
    /\ top = "ToJSON" /\ tround # <<>> => tres = "nil"
    /\ TracingLoaded /\ tround # <<>> =>
          tres = "nil" /\ TracingSame(tcfg, tround[1])

\* C2: for every config c a successful LoadJSON produced, under a fixed
\* environment, ToJSON(c) succeeds, and LoadJSON(ToJSON(c)) succeeds and
\* yields the enable flag, endpoint string and interval / probability /
\* service name of c.
C2_RoundTrip == MetricsRoundTrip /\ TracingRoundTrip

\* C3: Validate() returns no error when the enable flag is false, whatever
\* the other fields hold; when the flag is true it returns an error exactly
\* when the endpoint is unset or the numeric field is negative, so an
\* enabled TracingConfig with a probability above 1 is accepted.
C3_ValidationGating ==
    /\ mop = "Validate" =>
          ((mres # "nil") <=>
              /\ mcfg.EnableStats
              /\ \/ mcfg.PrometheusEndpoint = NilAddr
                 \/ mcfg.StatsReportingInterval < 0)
    /\ top = "Validate" =>
          ((tres # "nil") <=>
              /\ tcfg.EnableTracing
              /\ \/ tcfg.JaegerAgentEndpoint = NilAddr
                 \/ FloatNegative(tcfg.TracingSamplingProb))

\* Validate() has accepted an enabled TracingConfig whose sampling
\* probability is 1.5.
C3_Witness ==
    /\ top = "Validate" /\ tres = "nil"
    /\ tcfg.EnableTracing /\ tcfg.TracingSamplingProb = Fin(15)

\* Validate() has accepted a disabled MetricsConfig with no endpoint and a
\* negative interval.
C3_DisabledAccepted ==
    /\ mop = "Validate" /\ mres = "nil" /\ ~mcfg.EnableStats
    /\ mcfg.PrometheusEndpoint = NilAddr /\ mcfg.StatsReportingInterval < 0

\* C6: whenever LoadJSON returns no error Validate() on the instance returns
\* no error, and a document that decodes and parses but leaves the enable
\* flag true with a negative interval or probability makes LoadJSON fail
\* with InvalidConfig.
C6_LoadedIsValidated ==
    LET parseErrors == {"DecodeError", "EnvError", "InvalidEndpoint",
                        "InvalidDuration"}
    IN
    /\ MetricsLoaded /\ mres = "nil" => MetricsValidate(mcfg) = "nil"
    /\ TracingLoaded /\ tres = "nil" => TracingValidate(tcfg) = "nil"
    /\ MetricsLoaded /\ mres \notin parseErrors
          /\ mcfg.EnableStats /\ mcfg.StatsReportingInterval < 0
          => mres = "InvalidConfig"
    /\ TracingLoaded /\ tres \notin parseErrors
          /\ tcfg.EnableTracing /\ FloatNegative(tcfg.TracingSamplingProb)
          => tres = "InvalidConfig"

\* LoadJSON of a document with enable_stats true and reporting_interval
\* "-5s" has failed with InvalidConfig.
C6_Witness ==
    /\ MetricsLoaded /\ mres = "InvalidConfig"
    /\ mraw.json /\ mraw.enable_stats = JBool(TRUE)
    /\ mraw.reporting_interval = JString(DurText(TRUE, <<<<5, "s">>>>))

\* C7: Default() returns no error and, whatever the instance held, leaves
\* MetricsConfig disabled with endpoint "/ip4/0.0.0.0/tcp/8888" and interval
\* 2s, and TracingConfig disabled with endpoint "/ip4/0.0.0.0/udp/6831",
\* probability 0.3 and service name "cluster-daemon"; the result passes
\* Validate().
C7_DefaultConsistency ==
    /\ mop = "Default" =>
          /\ mres = "nil"
          /\ mcfg.EnableStats = FALSE
          /\ mcfg.PrometheusEndpoint # NilAddr
          /\ AddrString(mcfg.PrometheusEndpoint)
                = <<"", "ip4", "0.0.0.0", "tcp", "8888">>
          /\ mcfg.StatsReportingInterval = 2
          /\ MetricsValidate(mcfg) = "nil"
    /\ top = "Default" =>
          /\ tres = "nil"
          /\ tcfg.EnableTracing = FALSE
          /\ tcfg.JaegerAgentEndpoint # NilAddr
          /\ AddrString(tcfg.JaegerAgentEndpoint)
                = <<"", "ip4", "0.0.0.0", "udp", "6831">>
          /\ tcfg.TracingSamplingProb = Fin(3)
          /\ tcfg.TracingServiceName = "cluster-daemon"
          /\ TracingValidate(tcfg) = "nil"

\* Default() has returned on a TracingConfig after a LoadJSON that failed
\* to decode was logged, so on an instance that was used before.
C7_Witness == top = "Default" /\ tres = "nil" /\ nlog > 0

\* C10: LoadJSON gives the result, and on success the field values, that it
\* gives on a zero-valued instance with the same raw bytes and environment,
\* whatever the instance held before the call.
C10_PriorStateIndependent ==
    /\ MetricsLoaded =>
          LET z == MetricsLoadJSONResult(ZeroMetricsConfig, mraw, env)
          IN  mres = z.res /\ (mres = "nil" => mcfg = z.cfg)
    /\ TracingLoaded =>
          LET z == TracingLoadJSONResult(ZeroTracingConfig, traw, env)
          IN  tres = z.res /\ (tres = "nil" => tcfg = z.cfg)

\* LoadJSON has succeeded on an instance that an earlier LoadJSON had
\* loaded: the document is the ToJSON output of that earlier load.
C10_Witness == MetricsLoaded /\ mres = "nil" /\ mround # <<>>

\* The fields of jcfg once envconfig.Process has run.
MetricsEnvApplied == mpc \in {"endpoint", "interval", "validate"}
TracingEnvApplied == tpc \in {"options", "validate"}

WithoutVar(k) == [env EXCEPT ![k] = Unset]

MetricsOverridePerField ==
    LET ke == "CLUSTER_OBSERVATIONS_ENABLESTATS"
        kp == "CLUSTER_OBSERVATIONS_PROMETHEUSENDPOINT"
        ki == "CLUSTER_OBSERVATIONS_STATSREPORTINGINTERVAL"
        j  == MetricsUnmarshal(mraw).jcfg
        w(k) == MetricsLoadJSONResult(ZeroMetricsConfig, mraw, WithoutVar(k))
    IN
    /\ MetricsEnvApplied =>
          /\ mjcfg.EnableStats =
                IF IsSet(env, ke) THEN ParseBool(env[ke][1]).b
                ELSE j.EnableStats
          /\ mjcfg.PrometheusEndpoint =
                IF IsSet(env, kp) THEN env[kp][1] ELSE j.PrometheusEndpoint
          /\ mjcfg.StatsReportingInterval =
                IF IsSet(env, ki) THEN env[ki][1]
                ELSE j.StatsReportingInterval
    /\ MetricsLoaded /\ mres = "nil" =>
          /\ IsSet(env, ke) =>
                /\ mcfg.EnableStats = ParseBool(env[ke][1]).b
                /\ w(ke).res = "nil" =>
                      /\ mcfg.PrometheusEndpoint = w(ke).cfg.PrometheusEndpoint
                      /\ mcfg.StatsReportingInterval
                            = w(ke).cfg.StatsReportingInterval
          /\ IsSet(env, kp) =>
                /\ mcfg.PrometheusEndpoint = NewMultiaddr(env[kp][1]).addr
                /\ w(kp).res = "nil" =>
                      /\ mcfg.EnableStats = w(kp).cfg.EnableStats
                      /\ mcfg.StatsReportingInterval
                            = w(kp).cfg.StatsReportingInterval
          /\ IsSet(env, ki) =>
                /\ mcfg.StatsReportingInterval = ParseDuration(env[ki][1]).d
                /\ w(ki).res = "nil" =>
                      /\ mcfg.EnableStats = w(ki).cfg.EnableStats
                      /\ mcfg.PrometheusEndpoint = w(ki).cfg.PrometheusEndpoint

TracingOverridePerField ==
    LET ke == "CLUSTER_OBSERVATIONS_ENABLETRACING"
        kp == "CLUSTER_OBSERVATIONS_JAEGERAGENTENDPOINT"
        kx == "CLUSTER_OBSERVATIONS_TRACINGSAMPLINGPROB"
        kn == "CLUSTER_OBSERVATIONS_TRACINGSERVICENAME"
        j  == TracingUnmarshal(traw).jcfg
        w(k) == TracingLoadJSONResult(ZeroTracingConfig, traw, WithoutVar(k))
        others(k, fields) ==
            w(k).res = "nil" => \A f \in fields : tcfg[f] = w(k).cfg[f]
    IN
    /\ TracingEnvApplied =>
          /\ tjcfg.EnableTracing =
                IF IsSet(env, ke) THEN ParseBool(env[ke][1]).b
                ELSE j.EnableTracing
          /\ tjcfg.JaegerAgentEndpoint =
                IF IsSet(env, kp) THEN env[kp][1] ELSE j.JaegerAgentEndpoint
          /\ tjcfg.TracingSamplingProb =
                IF IsSet(env, kx) THEN ParseFloat(env[kx][1]).f
                ELSE j.TracingSamplingProb
          /\ tjcfg.TracingServiceName =
                IF IsSet(env, kn) THEN env[kn][1] ELSE j.TracingServiceName
    /\ TracingLoaded /\ tres = "nil" =>
          /\ IsSet(env, ke) =>
                /\ tcfg.EnableTracing = ParseBool(env[ke][1]).b
                /\ others(ke, {"JaegerAgentEndpoint", "TracingSamplingProb",
                               "TracingServiceName"})
          /\ IsSet(env, kp) =>
                /\ tcfg.JaegerAgentEndpoint = NewMultiaddr(env[kp][1]).addr
                /\ others(kp, {"EnableTracing", "TracingSamplingProb",
                               "TracingServiceName"})
          /\ IsSet(env, kx) =>
                /\ tcfg.TracingSamplingProb = ParseFloat(env[kx][1]).f
                /\ others(kx, {"EnableTracing", "JaegerAgentEndpoint",
                               "TracingServiceName"})
          /\ IsSet(env, kn) =>
                /\ tcfg.TracingServiceName = env[kn][1]
                /\ others(kn, {"EnableTracing", "JaegerAgentEndpoint",
                               "TracingSamplingProb"})

\* C4: when LoadJSON runs with an environment variable set for a field, the
\* override replaces the decoded value of that field only, the loaded
\* config has the variable's value in that field, and every other field
\* has the value the load gives it with that variable absent.
C4_OverridePerField == MetricsOverridePerField /\ TracingOverridePerField

\* LoadJSON of a document with enable_stats false has succeeded under
\* CLUSTER_OBSERVATIONS_ENABLESTATS=true, with another variable set too.
C4_Witness ==
    /\ MetricsLoaded /\ mres = "nil"
    /\ mraw.json /\ mraw.enable_stats = JBool(FALSE)
    /\ env["CLUSTER_OBSERVATIONS_ENABLESTATS"] = <<"true">>
    /\ IsSet(env, "CLUSTER_OBSERVATIONS_STATSREPORTINGINTERVAL")
    /\ mcfg.EnableStats

\* The document is a JSON object and its endpoint string, after the
\* environment override, does not parse as a multiaddr.
MetricsEndpointMalformed ==
    LET kp == "CLUSTER_OBSERVATIONS_PROMETHEUSENDPOINT"
    IN  /\ mraw.json
        /\ IsSet(env, kp) \/ mraw.prometheus_endpoint.t = "string"
        /\ NewMultiaddr(IF IsSet(env, kp) THEN env[kp][1]
                        ELSE mraw.prometheus_endpoint.s).err

TracingEndpointMalformed ==
    LET kp == "CLUSTER_OBSERVATIONS_JAEGERAGENTENDPOINT"
    IN  /\ traw.json
        /\ IsSet(env, kp) \/ traw.jaeger_agent_endpoint.t = "string"
        /\ NewMultiaddr(IF IsSet(env, kp) THEN env[kp][1]
                        ELSE traw.jaeger_agent_endpoint.s).err

\* C5 as stated: for any syntactically valid JSON document whose endpoint
\* string, after environment overrides, does not parse as a network
\* address, LoadJSON fails with InvalidEndpoint, whatever the other fields.
C5_AlwaysInvalidEndpoint ==
    /\ MetricsLoaded /\ MetricsEndpointMalformed => mres = "InvalidEndpoint"
    /\ TracingLoaded /\ TracingEndpointMalformed => tres = "InvalidEndpoint"

\* C5 as amended: for such a document LoadJSON never succeeds; it fails
\* with DecodeError if another key holds a value of the wrong JSON type,
\* else with the override error if a set variable does not parse as its
\* field's type, and else with InvalidEndpoint.
C5_MalformedEndpointRejected ==
    /\ MetricsLoaded /\ MetricsEndpointMalformed =>
          LET u == MetricsUnmarshal(mraw)
          IN  /\ mres # "nil"
              /\ mres = IF u.err THEN "DecodeError"
                        ELSE IF MetricsEnvProcess(env, u.jcfg).err
                        THEN "EnvError"
                        ELSE "InvalidEndpoint"
    /\ TracingLoaded /\ TracingEndpointMalformed =>
          LET u == TracingUnmarshal(traw)
          IN  /\ tres # "nil"
              /\ tres = IF u.err THEN "DecodeError"
                        ELSE IF TracingEnvProcess(env, u.jcfg).err
                        THEN "EnvError"
                        ELSE "InvalidEndpoint"

\* LoadJSON of a document with enable_tracing true and the endpoint
\* "not-a-multiaddr" has failed with InvalidEndpoint.
C5_Witness ==
    /\ TracingLoaded /\ tres = "InvalidEndpoint"
    /\ traw.json /\ traw.enable_tracing = JBool(TRUE)
    /\ traw.jaeger_agent_endpoint = JString(<<"not-a-multiaddr">>)

\* The error LoadJSON returns is that of the first failing step in the order
\* decode, overrides, endpoint, interval, Validate.
MetricsFirstError ==
    MetricsLoaded =>
       LET u == MetricsUnmarshal(mraw)
           p == MetricsEnvProcess(env, u.jcfg)
           a == NewMultiaddr(p.jcfg.PrometheusEndpoint)
           d == ParseDurations(p.jcfg.StatsReportingInterval,
                               DefaultStatsReportingInterval)
       IN  /\ u.err <=> mres = "DecodeError"
           /\ ~u.err /\ p.err => mres = "EnvError"
           /\ ~u.err /\ ~p.err /\ a.err => mres = "InvalidEndpoint"
           /\ ~u.err /\ ~p.err /\ ~a.err /\ d.err => mres = "InvalidDuration"
           /\ mres = "InvalidConfig" => ~u.err /\ ~p.err /\ ~a.err /\ ~d.err

TracingFirstError ==
    TracingLoaded =>
       LET u == TracingUnmarshal(traw)
           p == TracingEnvProcess(env, u.jcfg)
           a == NewMultiaddr(p.jcfg.JaegerAgentEndpoint)
       IN  /\ u.err <=> tres = "DecodeError"
           /\ ~u.err /\ p.err => tres = "EnvError"
           /\ ~u.err /\ ~p.err /\ a.err => tres = "InvalidEndpoint"
           /\ tres = "InvalidConfig" => ~u.err /\ ~p.err /\ ~a.err

\* The steps of LoadJSON follow one another in the fixed order, a failing
\* step returns at once, a decoding error leaves the instance as it was,
\* and the instance is written only by Default() and by the option loading.
MetricsStepOrder ==
    /\ <<mpc, mpc'>> \in
          {<<"idle", "idle">>, <<"idle", "default">>, <<"idle", "panicked">>,
           <<"default", "env">>,
           <<"env", "endpoint">>, <<"env", "idle">>,
           <<"endpoint", "interval">>, <<"endpoint", "idle">>,
           <<"interval", "validate">>, <<"interval", "idle">>,
           <<"validate", "idle">>} \cup {<<mpc, mpc>>}
    /\ mpc = "idle" /\ mop' = "LoadJSON" /\ mres' = "DecodeError"
          => mcfg' = mcfg
    /\ mpc = "idle" /\ mpc' = "default" => mcfg' = mcfg
    /\ mpc \in {"env", "validate"} => mcfg' = mcfg
    /\ mpc = "endpoint" =>
          mcfg'.StatsReportingInterval = mcfg.StatsReportingInterval
    /\ mpc = "interval" =>
          /\ mcfg'.EnableStats = mcfg.EnableStats
          /\ mcfg'.PrometheusEndpoint = mcfg.PrometheusEndpoint

TracingStepOrder ==
    /\ <<tpc, tpc'>> \in
          {<<"idle", "idle">>, <<"idle", "default">>, <<"idle", "panicked">>,
           <<"default", "env">>,
           <<"env", "options">>, <<"env", "idle">>,
           <<"options", "validate">>, <<"options", "idle">>,
           <<"validate", "idle">>} \cup {<<tpc, tpc>>}
    /\ tpc = "idle" /\ top' = "LoadJSON" /\ tres' = "DecodeError"
          => tcfg' = tcfg
    /\ tpc = "idle" /\ tpc' = "default" => tcfg' = tcfg
    /\ tpc \in {"env", "validate"} => tcfg' = tcfg

\* C9: LoadJSON runs decode, Default(), overrides, endpoint, interval
\* (metrics only), Validate in this order and returns the error of the first
\* step that fails without running a later one: malformed JSON gives
\* DecodeError before Default() has changed a field, a malformed endpoint
\* with a malformed interval gives InvalidEndpoint, and InvalidConfig is
\* returned only when decoding, overrides and parsing succeeded.
C9_FixedStepOrder ==
    /\ [](MetricsFirstError /\ TracingFirstError)
    /\ [][MetricsStepOrder /\ TracingStepOrder]_vars

\* LoadJSON of a document with a malformed endpoint and a malformed interval
\* has failed with InvalidEndpoint.
C9_Witness ==
    /\ MetricsLoaded /\ mres = "InvalidEndpoint"
    /\ mraw.json
    /\ mraw.prometheus_endpoint = JString(<<"not-a-multiaddr">>)
    /\ mraw.reporting_interval = JString(DurText(FALSE, <<<<5, "x">>>>))
    /\ \A k \in MetricsEnvKeys : ~IsSet(env, k)

\* Every finished Default() and LoadJSON left its instance with the result
\* and the state it has when run with nothing else running.
ResultsAsAlone ==
    /\ mop = "Default" => mres = "nil" /\ mcfg = MetricsDefault(mcfg)
    /\ top = "Default" => tres = "nil" /\ tcfg = TracingDefault(tcfg)
    /\ MetricsLoaded =>
          LET r == MetricsLoadJSONResult(ZeroMetricsConfig, mraw, env)
          IN  mres = r.res /\ (mres # "DecodeError" => mcfg = r.cfg)
    /\ TracingLoaded =>
          LET r == TracingLoadJSONResult(ZeroTracingConfig, traw, env)
          IN  tres = r.res /\ (tres # "DecodeError" => tcfg = r.cfg)

\* A step of one section leaves the other section's instance and call as
\* they are, and a decoding error leaves the instance as it was.
NoCrossSectionWrite ==
    /\ mvars' # mvars => tvars' = tvars
    /\ tvars' # tvars => mvars' = mvars
    /\ mres' = "DecodeError" => mcfg' = mcfg
    /\ tres' = "DecodeError" => tcfg' = tcfg
    /\ env' = env

\* C8 as stated: under every interleaving each instance ends with the state
\* and result of its load run alone, and no step of one section's load
\* writes a field of the other section or any state shared between them.
C8_NoSharedState ==
    /\ []ResultsAsAlone
    /\ [][NoCrossSectionWrite /\ nlog' = nlog]_vars

\* C8 as amended: the same, except that the sections do share the package
\* logger: a LoadJSON of either section that fails to decode writes one
\* message to it, and nothing else is shared and written.
C8_SectionsIndependent ==
    /\ []ResultsAsAlone
    /\ [][/\ NoCrossSectionWrite
          /\ nlog' # nlog =>
                /\ nlog' = nlog + 1
                /\ \/ tvars' = tvars /\ mres' = "DecodeError"
                   \/ mvars' = mvars /\ tres' = "DecodeError"]_vars

\* Both loads are in progress at once: the MetricsConfig load is about to
\* parse its interval while the TracingConfig load is about to load its
\* options, after a decoding error of one of them was logged.
C8_Witness == mpc = "interval" /\ tpc = "options" /\ nlog > 0

====
